---- MODULE Spec2Model ----
(***************************************************************************)
(* Model of the attendance system's live-recognition core:                 *)
(*   - src/src/services/faceRecognitionService.ts : the model lifecycle    *)
(*     (both definitions of initializeFaceApi that the file holds), the    *)
(*     gallery builders and the matcher-driven detection helpers;          *)
(*   - src/src/components/liveFeed/LiveFeed.tsx : the component state, the *)
(*     detection effect with its animation-frame loop, and the session     *)
(*     handlers;                                                           *)
(*   - src/src/context/AppContext.tsx : the record store and the           *)
(*     configuration.                                                      *)
(* Distances and thresholds are in tenths (0.6 is 6); a face descriptor is *)
(* abstracted to its length and one coordinate, so that the Euclidean      *)
(* distance of two descriptors is the absolute difference of coordinates.  *)
(***************************************************************************)
EXTENDS Integers, Sequences, FiniteSets, TLC

\* ------------------------------------------------------------------------
\* Bounds of the model
\* ------------------------------------------------------------------------
MaxCalls == 2

MaxClosures == 2

MaxDetected == 2

MaxFaces == 2

MaxVideoCalls == 1

MaxOrphans == 0

\* Students in a roster handed to the matching functions
MaxRoster == 2

\* The length of the system log is kept modulo this number
LogModulus == 3

\* startVideo calls that may be pending together where overlapping calls are studied
MaxCameraCalls == 2

\* Streams that may be left live off the video element in that study
MaxLeaked == 1

\* ------------------------------------------------------------------------
\* Program constants
\* ------------------------------------------------------------------------
DESCRIPTOR_LENGTH == 128

MATCH_THRESHOLD == 7

CREATE_MATCHER_THRESHOLD == 5

DEFAULT_MATCHER_THRESHOLD == 6

DEFAULT_RECOGNITION_THRESHOLD == 6

MOCK_DESCRIPTOR == 5

Nets == {"ssdMobilenetv1", "faceLandmark68Net", "faceRecognitionNet"}

CallIds == 1..MaxCalls

VARIABLES
    \* faceRecognitionService.ts, module state
    modelsLoading,      \* let modelsLoading
    modelsLoaded,       \* let modelsLoaded
    netParams,          \* nets whose weights were really loaded
    forcedLoaded,       \* nets whose isLoaded getter was overridden to true
    mockDetection,      \* faceapi.detectAllFaces replaced by the mock
    calls,              \* the initializeFaceApi calls in flight
    \* LiveFeed.tsx, component state
    modelStatus,
    modelLoadError,
    loading,
    retryModelLoading,
    cameraActive,
    videoReady,
    cameraRetryAvailable,
    camera,             \* the startVideo calls pending, the video element's
                        \* stream, the streams left live off the element, and
                        \* whether the component is mounted (videoRef.current set)
    isTracking,
    processingFrame,
    detectedStudents,
    selectedCourse,
    alerted,            \* the message of the last window.alert, "" if none
    closures,           \* the detection effect's closures (one per effect run)
    current,            \* the effect run whose cleanup is pending, 0 if none
    effectDeps,         \* dependencies of the detection effect at its last run
    cameraDeps,         \* dependency of the camera effect at its last run
    \* AppContext.tsx
    students,
    attendanceRecords,
    recognitionThreshold,
    systemLogs,         \* the newest entry's code and the number of entries
    \* the last call of a matching function made on its own
    probe

svcVars == <<modelsLoading, modelsLoaded, netParams, forcedLoaded, mockDetection, calls>>

loadVars == <<modelStatus, modelLoadError, loading, retryModelLoading>>

camVars == <<cameraActive, videoReady, cameraRetryAvailable, camera>>

sessionVars == <<isTracking, processingFrame, detectedStudents, selectedCourse>>

effectVars == <<closures, current, effectDeps, cameraDeps>>

ctxVars == <<students, attendanceRecords, recognitionThreshold, probe>>

logVars == <<systemLogs, alerted>>

vars == <<svcVars, loadVars, camVars, sessionVars, effectVars, ctxVars, logVars>>

\* ------------------------------------------------------------------------
\* faceRecognitionService.ts : model lifecycle
\* ------------------------------------------------------------------------

\* faceapi.nets.X.isLoaded
isLoaded(n) == n \in netParams \/ n \in forcedLoaded

faceApiReportsLoaded == \A n \in Nets : isLoaded(n)

\* areModelsLoaded (lines 34-53): the value it returns
areModelsLoaded == IF ~modelsLoaded THEN faceApiReportsLoaded ELSE TRUE

\* areModelsLoaded (lines 34-53): the flag it leaves behind
areModelsLoadedFlag == IF ~modelsLoaded /\ faceApiReportsLoaded THEN TRUE ELSE modelsLoaded

\* areModelsLoaded (lines 639-645), the second definition
areModelsLoadedDirect == faceApiReportsLoaded

\* addSystemLog (AppContext.tsx lines 182-189): the entry is put in front
addSystemLog(logs, code) == [last |-> code, n |-> (logs.n + 1) % LogModulus]

\* addSystemLog called k times with the same kind of entry
addSystemLogs(logs, code, k) ==
    IF k = 0 THEN logs ELSE [last |-> code, n |-> (logs.n + k) % LogModulus]

\* systemLogFunction (lines 19-24): the handler LiveFeed registers when it
\* mounts, null before
systemLogFunction(logs, code) ==
    IF modelStatus # "not_initialized" THEN addSystemLog(logs, code) ELSE logs

\* failure: the failure that happened during the call, if any
\* awaited: for a call that entered the waiting branch, the outcome of the load
\* that was in flight when it entered, once that load has finished
IdleCall ==
    [def |-> "none", pc |-> "idle", caller |-> "none", result |-> "none", failure |-> "none", awaited |-> "none"]

Returned(c, r) == [calls[c] EXCEPT !.pc = "returned", !.result = IF r THEN "true" ELSE "false"]

Callers == {"loadModels", "retry", "other"}

\* The loading call c returns r; the calls waiting on it have seen its outcome
Finish(c, r, f) ==
    [x \in CallIds |->
        IF x = c THEN [Returned(c, r) EXCEPT !.failure = f]
        ELSE IF calls[x].pc = "waiting" /\ calls[x].awaited = "none"
        THEN [calls[x] EXCEPT !.awaited = IF r THEN "true" ELSE "false"]
        ELSE calls[x]]

\* setupTensorFlowBackend (lines 6-16) catches its own failure: the call goes on
\* to the manifest fetches whatever the backend answered.
setupTensorFlowBackend(c, ok) ==
    [calls[c] EXCEPT !.pc = "manifests", !.failure = IF ok THEN @ ELSE "backend"]

\* An entry that skips the check of areModelsLoaded
EnterWithoutReadyCheck(c, who) ==
    /\ calls[c].pc = "idle"
    /\ IF modelsLoading
         THEN /\ calls' = [calls EXCEPT ![c] =
                      [def |-> "guarded", pc |-> "waiting", caller |-> who, result |-> "none",
                       failure |-> "none", awaited |-> "none"]]
              /\ UNCHANGED <<modelsLoading, modelsLoaded>>
         ELSE /\ modelsLoading' = TRUE
              /\ calls' = [calls EXCEPT ![c] =
                      [def |-> "guarded", pc |-> "backend", caller |-> who, result |-> "none",
                       failure |-> "none", awaited |-> "none"]]
              /\ UNCHANGED modelsLoaded
    /\ UNCHANGED <<netParams, forcedLoaded, mockDetection>>

\* initializeFaceApi (lines 60-87): entry of the guarded definition, up to its
\* first await
EnterGuarded(c, who) ==
    /\ calls[c].pc = "idle"
    /\ IF areModelsLoaded
         THEN /\ modelsLoaded' = areModelsLoadedFlag
              /\ modelsLoading' = modelsLoading
              /\ calls' = [calls EXCEPT ![c] =
                      [def |-> "guarded", pc |-> "returned", caller |-> who, result |-> "true",
                       failure |-> "none", awaited |-> "none"]]
         ELSE IF modelsLoading
         THEN /\ calls' = [calls EXCEPT ![c] =
                      [def |-> "guarded", pc |-> "waiting", caller |-> who, result |-> "none",
                       failure |-> "none", awaited |-> "none"]]
              /\ UNCHANGED <<modelsLoading, modelsLoaded>>
         ELSE /\ modelsLoading' = TRUE
              /\ calls' = [calls EXCEPT ![c] =
                      [def |-> "guarded", pc |-> "backend", caller |-> who, result |-> "none",
                       failure |-> "none", awaited |-> "none"]]
              /\ UNCHANGED modelsLoaded
    /\ UNCHANGED <<netParams, forcedLoaded, mockDetection>>

\* A catch block that leaves modelsLoading set
FailKeepsLoading(c) ==
    /\ modelsLoading' = modelsLoading
    /\ modelsLoaded' = FALSE
    /\ systemLogs' = systemLogFunction(systemLogs, "FACE_API_001")
    /\ calls' = Finish(c, FALSE, IF calls[c].pc = "manifests" THEN "manifest" ELSE "load")

\* A catch block that hands no event to the log handler
FailWithoutEvent(c) ==
    /\ modelsLoading' = FALSE
    /\ modelsLoaded' = FALSE
    /\ systemLogs' = systemLogs
    /\ calls' = Finish(c, FALSE, IF calls[c].pc = "manifests" THEN "manifest" ELSE "load")

\* initializeFaceApi (lines 155-171): the catch block of the guarded definition
GuardedFail(c) ==
    /\ modelsLoading' = FALSE
    /\ modelsLoaded' = FALSE
    /\ systemLogs' = systemLogFunction(systemLogs, "FACE_API_001")
    /\ calls' = Finish(c, FALSE, IF calls[c].pc = "manifests" THEN "manifest" ELSE "load")

\* initializeFaceApi (line 87): the backend setup has answered
GuardedBackend(c) ==
    /\ calls[c].def = "guarded" /\ calls[c].pc = "backend"
    /\ \E ok \in BOOLEAN : calls' = [calls EXCEPT ![c] = setupTensorFlowBackend(c, ok)]
    /\ UNCHANGED <<modelsLoading, modelsLoaded, netParams, forcedLoaded, mockDetection,
                   systemLogs>>

\* initializeFaceApi (lines 97-119): the three manifest fetches have settled
GuardedManifests(c) ==
    /\ calls[c].def = "guarded" /\ calls[c].pc = "manifests"
    /\ \E ok \in BOOLEAN :
          IF ok
          THEN /\ calls' = [calls EXCEPT ![c].pc = "ssdMobilenetv1"]
               /\ UNCHANGED <<modelsLoading, modelsLoaded, systemLogs>>
          ELSE GuardedFail(c)
    /\ UNCHANGED <<netParams, forcedLoaded, mockDetection>>

NextNet(n) ==
    CASE n = "ssdMobilenetv1" -> "faceLandmark68Net"
      [] n = "faceLandmark68Net" -> "faceRecognitionNet"
      [] OTHER -> "done"

\* initializeFaceApi (lines 121-153): one loadFromUri has settled; after the
\* third the models are verified and the call returns true
GuardedLoad(c) ==
    /\ calls[c].def = "guarded" /\ calls[c].pc \in Nets
    /\ \E ok \in BOOLEAN :
          IF ~ok
          THEN GuardedFail(c) /\ UNCHANGED netParams
          ELSE /\ netParams' = netParams \cup {calls[c].pc}
               /\ IF NextNet(calls[c].pc) # "done"
                    THEN /\ calls' = [calls EXCEPT ![c].pc = NextNet(calls[c].pc)]
                         /\ UNCHANGED <<modelsLoading, modelsLoaded, systemLogs>>
                    ELSE IF modelsLoaded \/ \A n \in Nets : n \in netParams' \/ n \in forcedLoaded
                    THEN /\ modelsLoading' = FALSE
                         /\ modelsLoaded' = TRUE
                         /\ systemLogs' = systemLogFunction(systemLogs, "Info")
                         /\ calls' = Finish(c, TRUE, calls[c].failure)
                    ELSE GuardedFail(c)
    /\ UNCHANGED <<forcedLoaded, mockDetection>>

\* initializeFaceApi (lines 68-81): a waiting call's poll finds the load over
GuardedWait(c) ==
    /\ calls[c].def = "guarded" /\ calls[c].pc = "waiting"
    /\ ~modelsLoading
    /\ calls' = [calls EXCEPT ![c] = Returned(c, modelsLoaded)]
    /\ UNCHANGED <<modelsLoading, modelsLoaded, netParams, forcedLoaded, mockDetection,
                   systemLogs>>

\* safelySetModelAsLoaded (lines 438-453), applied to the three nets
safelySetModelAsLoaded == Nets

\* createMockModels (lines 587-636): detectAllFaces is replaced and the nets
\* are marked as loaded
createMockModels ==
    /\ mockDetection' = TRUE
    /\ forcedLoaded' = safelySetModelAsLoaded

\* initializeFaceApi (lines 456-476): entry of the direct definition
EnterDirect(c, who) ==
    /\ calls[c].pc = "idle"
    /\ calls' = [calls EXCEPT ![c] =
            IF areModelsLoadedDirect
            THEN [def |-> "direct", pc |-> "returned", caller |-> who, result |-> "true",
                  failure |-> "none", awaited |-> "none"]
            ELSE [def |-> "direct", pc |-> "fetch_ssdMobilenetv1", caller |-> who,
                  result |-> "none", failure |-> "none", awaited |-> "none"]]
    /\ UNCHANGED <<modelsLoading, modelsLoaded, netParams, forcedLoaded, mockDetection>>

DirectStages == {"fetch_ssdMobilenetv1", "fetch_faceLandmark68Net", "fetch_faceRecognitionNet"}

NextStage(pc) ==
    CASE pc = "fetch_ssdMobilenetv1" -> "fetch_faceLandmark68Net"
      [] pc = "fetch_faceLandmark68Net" -> "fetch_faceRecognitionNet"
      [] OTHER -> "done"

\* initializeFaceApi (lines 473-535): one manifest-and-weights fetch of the
\* direct definition has settled; a failure hands over to useAlternativeLoader
DirectFetch(c) ==
    /\ calls[c].def = "direct" /\ calls[c].pc \in DirectStages
    /\ \E ok \in BOOLEAN :
          IF ~ok
          THEN /\ calls' = [calls EXCEPT ![c].pc = "load_ssdMobilenetv1"]
               /\ UNCHANGED forcedLoaded
          ELSE IF NextStage(calls[c].pc) # "done"
          THEN /\ calls' = [calls EXCEPT ![c].pc = NextStage(calls[c].pc)]
               /\ UNCHANGED forcedLoaded
          ELSE /\ forcedLoaded' = safelySetModelAsLoaded
               /\ calls' = [calls EXCEPT ![c] = Returned(c, TRUE)]
    /\ UNCHANGED <<modelsLoading, modelsLoaded, netParams, mockDetection, systemLogs>>

AltStages == {"load_ssdMobilenetv1", "load_faceLandmark68Net", "load_faceRecognitionNet"}

AltNet(pc) ==
    CASE pc = "load_ssdMobilenetv1" -> "ssdMobilenetv1"
      [] pc = "load_faceLandmark68Net" -> "faceLandmark68Net"
      [] OTHER -> "faceRecognitionNet"

NextAlt(pc) ==
    CASE pc = "load_ssdMobilenetv1" -> "load_faceLandmark68Net"
      [] pc = "load_faceLandmark68Net" -> "load_faceRecognitionNet"
      [] OTHER -> "done"

\* useAlternativeLoader (lines 543-584): one nets.X.load has settled; a failure
\* installs the mock models, and the loader returns true either way
useAlternativeLoader(c) ==
    /\ calls[c].def = "direct" /\ calls[c].pc \in AltStages
    /\ \E ok \in BOOLEAN :
          IF ~ok
          THEN /\ createMockModels
               /\ calls' = [calls EXCEPT ![c] = Returned(c, TRUE)]
               /\ UNCHANGED netParams
          ELSE /\ netParams' = netParams \cup {AltNet(calls[c].pc)}
               /\ calls' = [calls EXCEPT ![c] =
                       IF NextAlt(calls[c].pc) # "done"
                       THEN [calls[c] EXCEPT !.pc = NextAlt(calls[c].pc)]
                       ELSE Returned(c, TRUE)]
               /\ UNCHANGED <<forcedLoaded, mockDetection>>
    /\ UNCHANGED <<modelsLoading, modelsLoaded, systemLogs>>

\* ------------------------------------------------------------------------
\* Enrolled students (types/index.ts Student, utils/mockData mockStudents)
\* ------------------------------------------------------------------------
Student(i, n, consent, has, len, at) ==
    [id |-> i, name |-> n, consentGiven |-> consent, hasDescriptor |-> has,
     descriptorLength |-> len, descriptor |-> at]

Ann == Student(1, "Ann", TRUE, TRUE, DESCRIPTOR_LENGTH, 0)

Bob == Student(2, "Bob", TRUE, TRUE, DESCRIPTOR_LENGTH, 12)

Ann2 == Student(3, "Ann", TRUE, TRUE, DESCRIPTOR_LENGTH, 24)

Eve == Student(4, "Eve", FALSE, TRUE, DESCRIPTOR_LENGTH, 12)

Sam == Student(5, "Sam", TRUE, TRUE, 64, 12)

\* The roster of the running application: two students share a name
Roster == <<Ann, Bob, Ann2>>

\* A student without a stored descriptor
Una == Student(6, "Una", TRUE, FALSE, 0, 0)

\* Coordinates of detected faces: at Ann, 0.6 from Ann and Bob, 0.4 from Ann2,
\* 0.7 from Ann2
FaceCoords == {0, 6, 20, 31}

Courses == {"course1"}

ConfigThresholds == {DEFAULT_RECOGNITION_THRESHOLD, MATCH_THRESHOLD}

ClosureIds == 1..MaxClosures

\* earlier: the closure's pass was in flight when tracking was last started
\* inactive: the closure's pass in flight started while isTracking was false
\*           and the effects had run for that
NoClosure ==
    [st |-> "none", processingFrame |-> FALSE, isTracking |-> FALSE,
     detectedStudents |-> <<>>, students |-> <<>>, earlier |-> FALSE,
     inactive |-> FALSE]

\* ------------------------------------------------------------------------
\* face-api.js matching, as the code uses it
\* ------------------------------------------------------------------------
Abs(x) == IF x < 0 THEN -x ELSE x

euclideanDistance(a, b) == Abs(a - b)

RECURSIVE BestOf(_, _, _)
\* FaceMatcher.findBestMatch: the reduce over the labelled descriptors keeps the
\* earlier entry only when it is strictly nearer
BestOf(gallery, at, best) ==
    IF gallery = <<>> THEN best
    ELSE LET curr == [label |-> Head(gallery).label,
                      distance |-> euclideanDistance(at, Head(gallery).descriptor)]
         IN BestOf(Tail(gallery), at, IF best.distance < curr.distance THEN best ELSE curr)

\* FaceMatcher.findBestMatch(descriptor) for a non-empty gallery and threshold
findBestMatch(gallery, threshold, at) ==
    LET first == [label |-> Head(gallery).label,
                  distance |-> euclideanDistance(at, Head(gallery).descriptor)]
        best == BestOf(Tail(gallery), at, first)
    IN IF best.distance < threshold THEN best
       ELSE [label |-> "unknown", distance |-> best.distance]

\* euclideanDistance throws when the two descriptors differ in length
MatchThrows(gallery) ==
    \E i \in 1..Len(gallery) : gallery[i].descriptorLength # DESCRIPTOR_LENGTH

LabeledFaceDescriptors(student) ==
    [label |-> student.name, descriptor |-> student.descriptor,
     descriptorLength |-> student.descriptorLength, id |-> student.id]

MapSeq(f(_), s) == [i \in 1..Len(s) |-> f(s[i])]

\* ------------------------------------------------------------------------
\* Galleries
\* ------------------------------------------------------------------------

\* createFaceMatcher (lines 179-221): consent, a descriptor, and 128 values
studentsWithDescriptors(studs) ==
    SelectSeq(studs, LAMBDA st : st.consentGiven /\ st.hasDescriptor
                                 /\ st.descriptorLength = DESCRIPTOR_LENGTH)

\* runFaceDetection (lines 329-331): consent and a descriptor
studentsWithFaces(studs) ==
    SelectSeq(studs, LAMBDA st : st.consentGiven /\ st.hasDescriptor)

\* createFaceMatcher (lines 179-221): null (the empty gallery) or a matcher
createFaceMatcher(studs) ==
    [gallery |-> MapSeq(LabeledFaceDescriptors, studentsWithDescriptors(studs)),
     threshold |-> CREATE_MATCHER_THRESHOLD]

\* students.find(s => s.name === label): the first student of that name, 0 if none
RECURSIVE FindByName(_, _, _)
FindByName(studs, label, i) ==
    IF i > Len(studs) THEN 0
    ELSE IF studs[i].name = label THEN i
    ELSE FindByName(studs, label, i + 1)

Ids(seq) == {seq[i] : i \in 1..Len(seq)}

\* runFaceDetection (lines 357-375): the match results of one pass
PassResults(studs, faces) ==
    LET gallery == MapSeq(LabeledFaceDescriptors, studentsWithFaces(studs))
    IN [i \in 1..Len(faces) |-> findBestMatch(gallery, MATCH_THRESHOLD, faces[i])]

\* runFaceDetection (line 380): the test that colours the box and gates the
\* observation
isMatch(result) == result.distance < MATCH_THRESHOLD

\* runFaceDetection (lines 387-392): the student a result is resolved to, 0 if
\* the result is not a match or no student carries the label
ResolvedStudent(studs, result) ==
    IF isMatch(result) /\ result.label # "unknown"
    THEN LET i == FindByName(studs, result.label, 1)
         IN IF i = 0 THEN 0 ELSE studs[i].id
    ELSE 0

RECURSIVE Observations(_, _, _, _)
\* runFaceDetection (lines 378-405): the ids the pass appends, in order; the
\* membership test reads the closure's detectedStudents
Observations(studs, seen, results, i) ==
    IF i > Len(results) THEN <<>>
    ELSE LET id == ResolvedStudent(studs, results[i])
         IN (IF id # 0 /\ id \notin Ids(seen) THEN <<id>> ELSE <<>>)
            \o Observations(studs, seen, results, i + 1)

\* runFaceDetection (lines 329-412): what one pass appends to detectedStudents
PassAppends(studs, seen, faces) ==
    IF studentsWithFaces(studs) = <<>> THEN <<>>
    ELSE Observations(studs, seen, PassResults(studs, faces), 1)

\* runFaceDetection (lines 361-375): the matcher throws on the first face when a
\* gallery descriptor has another length than the detected one
PassThrows(studs, faces) ==
    /\ studentsWithFaces(studs) # <<>>
    /\ faces # <<>>
    /\ MatchThrows(MapSeq(LabeledFaceDescriptors, studentsWithFaces(studs)))

\* ------------------------------------------------------------------------
\* LiveFeed.tsx : effects
\* ------------------------------------------------------------------------
Deps == <<isTracking, modelStatus, students, videoReady, processingFrame>>

\* No render is pending: the effects have run for the current state
Settled == Deps = effectDeps /\ modelStatus = cameraDeps

Min(S) == CHOOSE x \in S : \A y \in S : x <= y

FreeSlots(cl) == {k \in ClosureIds : cl[k].st = "none"}

\* detection effect cleanup (lines 443-448): cancelAnimationFrame(requestId)
Cleanup(cl, cur) ==
    IF cur # 0 /\ cl[cur].st = "scheduled" THEN [cl EXCEPT ![cur] = NoClosure] ELSE cl

\* detection effect guard (line 293)
EffectGuard(isT, ms, vr) == isT /\ ms = "loaded" /\ vr

\* detection effect (lines 292-449): cleanup of the previous run, then the new
\* run, which schedules its own runFaceDetection closure
DetectionEffect(cl, cur, isT, ms, studs, vr, pf, det) ==
    LET c1 == Cleanup(cl, cur)
    IN IF EffectGuard(isT, ms, vr)
       THEN LET k == Min(FreeSlots(c1))
            IN [closures |-> [c1 EXCEPT ![k] =
                                 [st |-> "scheduled", processingFrame |-> pf,
                                  isTracking |-> isT, detectedStudents |-> det,
                                  students |-> studs, earlier |-> FALSE,
                                  inactive |-> FALSE]],
                current |-> k]
       ELSE [closures |-> c1, current |-> 0]

CanRunEffect(isT, ms, vr) ==
    EffectGuard(isT, ms, vr) => FreeSlots(Cleanup(closures, current)) # {}

\* The re-render after a click: the handlers' state changes are committed and
\* the detection effect runs again when one of its dependencies changed
CommitDetectionOf(cl, isT, det) ==
    /\ CanRunEffect(isT, modelStatus, videoReady)
    /\ LET deps == <<isT, modelStatus, students, videoReady, processingFrame>>
           e == DetectionEffect(cl, current, isT, modelStatus, students,
                                videoReady, processingFrame, det)
       IN IF deps # effectDeps
          THEN closures' = e.closures /\ current' = e.current /\ effectDeps' = deps
          ELSE closures' = cl /\ UNCHANGED <<current, effectDeps>>
    /\ UNCHANGED cameraDeps

CommitDetection(isT, det) == CommitDetectionOf(closures, isT, det)

\* The passes in flight at a start of tracking belong to an earlier session
InFlightAtStart(cl) ==
    [k \in ClosureIds |-> IF cl[k].st = "detecting" THEN [cl[k] EXCEPT !.earlier = TRUE]
                          ELSE cl[k]]

NoProbe ==
    [op |-> "none", faces |-> <<>>, configured |-> 0, gallery |-> <<>>,
     matcherThreshold |-> 0, boxThreshold |-> 0, results |-> <<>>, green |-> <<>>,
     observed |-> <<>>, threw |-> FALSE]

\* ------------------------------------------------------------------------
\* Initial state: the service module is loaded and LiveFeed has been
\* constructed (useState initial values), its mount effects not yet run
\* ------------------------------------------------------------------------
InitFrom(roster) ==
    /\ students = roster
    /\ modelsLoading = FALSE
    /\ modelsLoaded = FALSE
    /\ netParams = {}
    /\ forcedLoaded = {}
    /\ mockDetection = FALSE
    /\ calls = [c \in CallIds |-> IdleCall]
    /\ modelStatus = "not_initialized"
    /\ modelLoadError = "none"
    /\ loading = TRUE
    /\ retryModelLoading = FALSE
    /\ cameraActive = FALSE
    /\ videoReady = FALSE
    /\ cameraRetryAvailable = FALSE
    /\ camera = [pending |-> 0, src |-> "none", playing |-> FALSE, orphans |-> 0,
                 mounted |-> TRUE]
    /\ isTracking = FALSE
    /\ processingFrame = FALSE
    /\ detectedStudents = <<>>
    /\ selectedCourse = ""
    /\ closures = [k \in ClosureIds |-> NoClosure]
    /\ current = 0
    /\ effectDeps = <<FALSE, "not_initialized", students, FALSE, FALSE>>
    /\ cameraDeps = "not_initialized"
    /\ attendanceRecords = <<>>
    /\ recognitionThreshold = DEFAULT_RECOGNITION_THRESHOLD
    /\ systemLogs = [last |-> "none", n |-> 0]
    /\ alerted = ""
    /\ probe = NoProbe

Init == InitFrom(Roster)

\* A roster without an eligible student: one has withdrawn consent, the other
\* has no stored descriptor
NoEligibleRoster == <<Eve, Una>>

InitNoEligible == InitFrom(NoEligibleRoster)

\* Rosters without an eligible student: nobody enrolled, nobody with consent
\* and a descriptor, and one student whose stored descriptor has 64 values
NoEligibleRosters == {<<>>, NoEligibleRoster, <<Sam>>}

InitEmptyGallery == \E r \in NoEligibleRosters : InitFrom(r)

feedVars == <<loadVars, camVars, sessionVars, effectVars, ctxVars, alerted>>

\* ------------------------------------------------------------------------
\* Service calls of other callers (StudentManagement, the earlier LiveFeed)
\* ------------------------------------------------------------------------
CallGuarded(c) ==
    /\ EnterGuarded(c, "other")
    /\ UNCHANGED <<feedVars, systemLogs>>

CallDirect(c) ==
    /\ EnterDirect(c, "other")
    /\ UNCHANGED <<feedVars, systemLogs>>

ServiceStep(c) ==
    /\ \/ GuardedBackend(c)
       \/ GuardedManifests(c)
       \/ GuardedLoad(c)
       \/ GuardedWait(c)
       \/ DirectFetch(c)
       \/ useAlternativeLoader(c)
    /\ UNCHANGED feedVars

\* the other caller takes the result; the call is over
OtherReturn(c) ==
    /\ calls[c].pc = "returned" /\ calls[c].caller = "other"
    /\ calls' = [calls EXCEPT ![c] = IdleCall]
    /\ UNCHANGED <<modelsLoading, modelsLoaded, netParams, forcedLoaded, mockDetection>>
    /\ UNCHANGED <<feedVars, systemLogs>>

\* ------------------------------------------------------------------------
\* LiveFeed.tsx : model loading
\* ------------------------------------------------------------------------

\* loadModels (lines 43-61): the mount effect, up to the await
loadModels(c) ==
    /\ modelStatus = "not_initialized"
    /\ loading' = TRUE
    /\ modelLoadError' = "none"
    /\ modelStatus' = "loading"
    /\ EnterGuarded(c, "loadModels")
    /\ systemLogs' = addSystemLog(systemLogs, "Info")
    /\ UNCHANGED <<retryModelLoading, camVars, sessionVars, effectVars, ctxVars, alerted>>

\* loadModels (lines 61-106): the await has answered
loadModelsResume(c) ==
    /\ calls[c].pc = "returned" /\ calls[c].caller = "loadModels"
    /\ IF calls[c].result = "true"
         THEN /\ modelsLoaded' = areModelsLoadedFlag
              /\ IF areModelsLoaded
                   THEN /\ modelStatus' = "loaded"
                        /\ systemLogs' = addSystemLog(systemLogs, "Info")
                        /\ UNCHANGED <<modelLoadError, retryModelLoading>>
                   ELSE /\ modelLoadError' = "model"
                        /\ modelStatus' = "error"
                        /\ systemLogs' = addSystemLog(systemLogs, "FACE_API_002")
                        /\ retryModelLoading' = TRUE
         ELSE /\ modelLoadError' = "model"
              /\ modelStatus' = "error"
              /\ systemLogs' = addSystemLog(systemLogs, "FACE_API_002")
              /\ retryModelLoading' = TRUE
              /\ UNCHANGED modelsLoaded
    /\ loading' = FALSE
    /\ calls' = [calls EXCEPT ![c] = IdleCall]
    /\ UNCHANGED <<modelsLoading, netParams, forcedLoaded, mockDetection>>
    /\ UNCHANGED <<camVars, sessionVars, effectVars, ctxVars, alerted>>

\* handleRetryModelLoading (lines 512-519): the Retry button of the error alert
handleRetryModelLoading(c) ==
    /\ Settled
    /\ modelLoadError # "none" /\ retryModelLoading
    /\ retryModelLoading' = FALSE
    /\ loading' = TRUE
    /\ modelLoadError' = "none"
    /\ EnterGuarded(c, "retry")
    /\ UNCHANGED <<modelStatus, camVars, sessionVars, effectVars, ctxVars, alerted, systemLogs>>

\* handleRetryModelLoading (lines 519-535): the await has answered
handleRetryResume(c) ==
    /\ calls[c].pc = "returned" /\ calls[c].caller = "retry"
    /\ IF calls[c].result = "true"
         THEN /\ modelsLoaded' = areModelsLoadedFlag
              /\ IF areModelsLoaded
                   THEN modelStatus' = "loaded" /\ UNCHANGED modelLoadError
                   ELSE modelStatus' = "error" /\ modelLoadError' = "model"
         ELSE /\ modelStatus' = "error"
              /\ modelLoadError' = "model"
              /\ UNCHANGED modelsLoaded
    /\ loading' = FALSE
    /\ calls' = [calls EXCEPT ![c] = IdleCall]
    /\ UNCHANGED <<modelsLoading, netParams, forcedLoaded, mockDetection, retryModelLoading>>
    /\ UNCHANGED <<camVars, sessionVars, effectVars, ctxVars, alerted, systemLogs>>

\* ------------------------------------------------------------------------
\* LiveFeed.tsx : camera
\* ------------------------------------------------------------------------

\* stream.getTracks().forEach(track => track.stop()) on videoRef.current.srcObject
StopTracks(cam) == IF cam.src = "live" THEN [cam EXCEPT !.src = "stopped", !.playing = FALSE] ELSE cam

\* startVideo (lines 127-144): existing streams cleared, the devices requested
startVideo(cam) == [StopTracks(cam) EXCEPT !.pending = cam.pending + 1]

\* camera effect (lines 113-125): cleanup of the previous run, then startVideo
\* when the models are loaded
CameraEffect(cam, ms) == IF ms = "loaded" THEN startVideo(StopTracks(cam)) ELSE StopTracks(cam)

\* The re-render after state changes made outside a click: the effects whose
\* dependencies changed run again
Render ==
    /\ camera.mounted
    /\ ~Settled
    /\ CanRunEffect(isTracking, modelStatus, videoReady)
    /\ IF modelStatus # cameraDeps
         THEN /\ modelStatus = "loaded" => camera.pending < MaxVideoCalls
              /\ camera' = CameraEffect(camera, modelStatus)
              /\ cameraDeps' = modelStatus
         ELSE UNCHANGED <<camera, cameraDeps>>
    /\ IF Deps # effectDeps
         THEN LET e == DetectionEffect(closures, current, isTracking, modelStatus,
                                       students, videoReady, processingFrame,
                                       detectedStudents)
              IN closures' = e.closures /\ current' = e.current /\ effectDeps' = Deps
         ELSE UNCHANGED <<closures, current, effectDeps>>
    /\ systemLogs' = IF modelStatus # cameraDeps /\ modelStatus = "loaded"
                      THEN addSystemLog(systemLogs, "Info") ELSE systemLogs
    /\ UNCHANGED <<svcVars, loadVars, cameraActive, videoReady, cameraRetryAvailable,
                   sessionVars, ctxVars, alerted>>

\* Retry Camera Access button (lines 659-669), shown while the camera is not
\* active and nothing is loading (line 639); n caps the startVideo calls pending
RetryCameraAccessUpTo(n) ==
    /\ camera.mounted
    /\ Settled
    /\ ~cameraActive /\ ~loading
    /\ camera.pending < n
    /\ cameraRetryAvailable' = FALSE
    /\ modelLoadError' = "none"
    /\ camera' = startVideo(camera)
    /\ systemLogs' = addSystemLog(systemLogs, "Info")
    /\ UNCHANGED <<svcVars, modelStatus, loading, retryModelLoading, cameraActive,
                   videoReady, sessionVars, effectVars, ctxVars, alerted>>

RetryCameraAccess == RetryCameraAccessUpTo(MaxVideoCalls)

\* startVideo (lines 192-209, 248-254): getUserMedia resolved, the stream is set
\* on the video element; a stream that was there is replaced as it is. m caps
\* the streams left live off the element
VideoGrantedUpTo(m) ==
    /\ camera.pending > 0
    /\ camera.mounted
    /\ camera.src = "live" => camera.orphans < m
    /\ camera' = [pending |-> camera.pending - 1, src |-> "live", playing |-> FALSE,
                   orphans |-> IF camera.src = "live" THEN camera.orphans + 1
                               ELSE camera.orphans,
                   mounted |-> TRUE]
    /\ systemLogs' = addSystemLog(systemLogs, "Info")
    /\ UNCHANGED <<svcVars, loadVars, cameraActive, videoReady, cameraRetryAvailable,
                   sessionVars, effectVars, ctxVars, alerted>>

VideoGranted == VideoGrantedUpTo(MaxOrphans)

\* startVideo (lines 269-288): no device, or getUserMedia rejected
VideoDenied ==
    /\ camera.pending > 0
    /\ camera' = [camera EXCEPT !.pending = camera.pending - 1]
    /\ cameraActive' = FALSE
    /\ videoReady' = FALSE
    /\ modelLoadError' = "camera"
    /\ cameraRetryAvailable' = TRUE
    /\ systemLogs' = addSystemLog(systemLogs, "CAM_ACCESS_001")
    /\ UNCHANGED <<svcVars, modelStatus, loading, retryModelLoading, sessionVars,
                   effectVars, ctxVars, alerted>>

\* onloadedmetadata / play().then (lines 212-225, 256-267)
VideoPlaying ==
    /\ camera.mounted
    /\ camera.src = "live" /\ ~camera.playing
    /\ camera' = [camera EXCEPT !.playing = TRUE]
    /\ videoReady' = TRUE
    /\ cameraActive' = TRUE
    /\ UNCHANGED <<svcVars, loadVars, cameraRetryAvailable, sessionVars, effectVars, ctxVars, alerted,
                   systemLogs>>

\* startVideo (lines 192-209, 269-288) resumed after the component was taken
\* down: videoRef.current is null, the assignment of line 209 throws, the catch
\* block logs the failure and nothing stops the stream that was acquired
VideoGrantedUnmounted(m) ==
    /\ camera.pending > 0
    /\ ~camera.mounted
    /\ camera.orphans < m
    /\ camera' = [camera EXCEPT !.pending = camera.pending - 1,
                                !.orphans = camera.orphans + 1]
    /\ systemLogs' = addSystemLog(addSystemLog(systemLogs, "Info"), "CAM_ACCESS_001")
    /\ UNCHANGED <<svcVars, loadVars, cameraActive, videoReady, cameraRetryAvailable,
                   sessionVars, effectVars, ctxVars, alerted>>

\* Component teardown: the cleanups of the camera effect (lines 117-123) and of
\* the detection effect (lines 443-448). Whether videoRef.current is still set
\* when the camera cleanup runs depends on the React version of the build:
\* with refSet the stream on the element is stopped, without it nothing is.
Unmount ==
    /\ camera.mounted
    /\ \E refSet \in BOOLEAN :
          camera' = [(IF refSet THEN StopTracks(camera) ELSE camera) EXCEPT !.mounted = FALSE]
    /\ closures' = Cleanup(closures, current)
    /\ current' = 0
    /\ UNCHANGED <<svcVars, loadVars, cameraActive, videoReady, cameraRetryAvailable,
                   sessionVars, effectDeps, cameraDeps, ctxVars, logVars>>

\* ------------------------------------------------------------------------
\* LiveFeed.tsx : session handlers
\* ------------------------------------------------------------------------

\* toggleTracking (lines 455-474), the Start/Stop Tracking button (line 678)
toggleTracking ==
    /\ camera.mounted
    /\ Settled
    /\ modelStatus = "loaded" /\ ~loading /\ cameraActive
    /\ isTracking' = ~isTracking
    /\ detectedStudents' = IF ~isTracking THEN <<>> ELSE detectedStudents
    /\ CommitDetectionOf(IF ~isTracking THEN InFlightAtStart(closures) ELSE closures,
                         isTracking', detectedStudents')
    /\ systemLogs' = addSystemLog(systemLogs, "Info")
    /\ UNCHANGED <<svcVars, loadVars, camVars, processingFrame, selectedCourse, ctxVars, alerted>>

\* handleCourseChange (lines 480-482)
handleCourseChange ==
    /\ Settled
    /\ \E c \in Courses \ {selectedCourse} : selectedCourse' = c
    /\ UNCHANGED <<svcVars, loadVars, camVars, isTracking, processingFrame,
                   detectedStudents, effectVars, ctxVars, alerted, systemLogs>>

\* addBulkAttendance (AppContext.tsx lines 165-179)
addBulkAttendance(store, records) == store \o records

\* handlePostAttendance (lines 489-509) past its course check: the posting is
\* logged and the session reset; no record is handed to the store
postAttendance ==
    /\ detectedStudents' = <<>>
    /\ isTracking' = FALSE
    /\ CommitDetection(FALSE, <<>>)
    /\ systemLogs' = addSystemLog(systemLogs, "Posted")
    /\ UNCHANGED <<svcVars, loadVars, camVars, processingFrame, selectedCourse, ctxVars, alerted>>

\* A handler that posts without looking at the course
PostWithoutCourseCheck == postAttendance

\* handlePostAttendance (lines 484-510), the handler's own code
handlePostAttendanceBody ==
    IF selectedCourse = ""
    THEN /\ alerted' = "Please select a course before posting attendance."
         /\ UNCHANGED <<svcVars, loadVars, camVars, sessionVars, effectVars, ctxVars,
                        systemLogs>>
    ELSE postAttendance

\* A button that does not look at the tracking flag
PostButtonWithoutTracking == detectedStudents # <<>> /\ selectedCourse # ""

\* The Post Attendance button is enabled (line 773)
PostButtonEnabled == isTracking /\ detectedStudents # <<>> /\ selectedCourse # ""

\* handlePostAttendance run by a click on the Post Attendance button
handlePostAttendance ==
    /\ Settled
    /\ PostButtonEnabled
    /\ handlePostAttendanceBody

\* handlePostAttendance run in any rendered state, whatever the button's state
handlePostAttendanceCall ==
    /\ Settled
    /\ handlePostAttendanceBody

\* updateSystemConfig (AppContext.tsx lines 207-236), detectionSettings
updateSystemConfig ==
    /\ \E t \in ConfigThresholds \ {recognitionThreshold} : recognitionThreshold' = t
    /\ systemLogs' = addSystemLog(systemLogs, "Info")
    /\ UNCHANGED <<svcVars, loadVars, camVars, sessionVars, effectVars, students,
                   attendanceRecords, probe, alerted>>

\* ------------------------------------------------------------------------
\* LiveFeed.tsx : the detection loop
\* ------------------------------------------------------------------------
SeqsUpTo(S, n) == UNION {[1..m -> S] : m \in 0..n}

\* A state setter of LiveFeed called by a closure that outlived the component
\* changes nothing
SetState(new, old) == IF camera.mounted THEN new ELSE old

\* what faceapi.detectAllFaces(video)...withFaceDescriptors() can resolve to
Detections ==
    IF mockDetection THEN SeqsUpTo({MOCK_DESCRIPTOR}, MaxFaces) \ {<<>>}
    ELSE IF netParams = Nets THEN SeqsUpTo(FaceCoords, MaxFaces)
    ELSE {}

\* runFaceDetection (lines 306-311, 434-437): an animation frame runs the
\* closure k; it returns when its processingFrame is set, polls while the video
\* has no frame, and otherwise starts a pass
Tick(k) ==
    /\ closures[k].st = "scheduled"
    /\ IF closures[k].processingFrame
         THEN /\ closures' = [closures EXCEPT ![k] = NoClosure]
              /\ current' = IF current = k THEN 0 ELSE current
              /\ UNCHANGED processingFrame
         ELSE /\ camera.src = "live" /\ camera.playing
              /\ processingFrame' = SetState(TRUE, processingFrame)
              /\ closures' = [closures EXCEPT ![k].st = "detecting",
                                              ![k].inactive = ~isTracking /\ Settled]
              /\ UNCHANGED current
    /\ UNCHANGED <<svcVars, loadVars, camVars, isTracking, detectedStudents,
                   selectedCourse, effectDeps, cameraDeps, ctxVars, alerted, systemLogs>>

\* A pass that ends without requesting another animation frame
EndWithoutReschedule(k) == [closures EXCEPT ![k] = NoClosure]

\* runFaceDetection (lines 429-437): the finally block and the rescheduling,
\* which reads the closure's isTracking
Reschedule(k) ==
    IF closures[k].isTracking
    THEN [closures EXCEPT ![k].st = "scheduled", ![k].inactive = FALSE]
    ELSE [closures EXCEPT ![k] = NoClosure]

\* runFaceDetection (lines 318-412, 429-437): the pass of closure k completes
PassDone(k) ==
    /\ closures[k].st = "detecting"
    /\ \E faces \in Detections :
          /\ ~PassThrows(closures[k].students, faces)
          /\ detectedStudents' = SetState(detectedStudents \o
                 PassAppends(closures[k].students, closures[k].detectedStudents, faces),
                 detectedStudents)
          /\ Len(detectedStudents') <= MaxDetected
          /\ systemLogs' = addSystemLogs(systemLogs, "Info",
                 Len(PassAppends(closures[k].students, closures[k].detectedStudents, faces)))
    /\ processingFrame' = SetState(FALSE, processingFrame)
    /\ closures' = Reschedule(k)
    /\ UNCHANGED <<svcVars, loadVars, camVars, isTracking, selectedCourse, current,
                   effectDeps, cameraDeps, ctxVars, alerted>>

\* runFaceDetection (lines 413-437): the pass of closure k throws, in the
\* detection or in the matcher
PassFailed(k) ==
    /\ closures[k].st = "detecting"
    /\ \/ ~mockDetection
       \/ \E faces \in Detections : PassThrows(closures[k].students, faces)
    /\ isTracking' = SetState(IF closures[k].isTracking THEN FALSE ELSE isTracking,
                              isTracking)
    /\ systemLogs' = addSystemLog(systemLogs, "FACE_DETECT_001")
    /\ processingFrame' = SetState(FALSE, processingFrame)
    /\ closures' = Reschedule(k)
    /\ UNCHANGED <<svcVars, loadVars, camVars, detectedStudents, selectedCourse, current,
                   effectDeps, cameraDeps, ctxVars, alerted>>

\* LiveFeed as the only caller of the service
Next ==
    \/ \E c \in CallIds : ServiceStep(c)
    \/ \E c \in CallIds : loadModels(c)
    \/ \E c \in CallIds : loadModelsResume(c)
    \/ \E c \in CallIds : handleRetryModelLoading(c)
    \/ \E c \in CallIds : handleRetryResume(c)
    \/ Render
    \/ RetryCameraAccess
    \/ VideoGranted
    \/ VideoDenied
    \/ VideoPlaying
    \/ toggleTracking
    \/ handleCourseChange
    \/ handlePostAttendance
    \/ \E k \in ClosureIds : Tick(k)
    \/ \E k \in ClosureIds : PassDone(k)
    \/ \E k \in ClosureIds : PassFailed(k)

Spec == Init /\ [][Next]_vars

\* LiveFeed where the browser runs what it has scheduled: a requested
\* animation frame fires, a pass in flight settles, a pending render happens
Fairness ==
    /\ WF_vars(Render)
    /\ \A k \in ClosureIds : WF_vars(Tick(k))
    /\ \A k \in ClosureIds : WF_vars(PassDone(k) \/ PassFailed(k))

SpecFair == Spec /\ Fairness

\* LiveFeed with startVideo calls that overlap: a camera retry clicked while
\* another startVideo call is still waiting for its stream
NextOverlap ==
    \/ \E c \in CallIds : ServiceStep(c)
    \/ \E c \in CallIds : loadModels(c)
    \/ \E c \in CallIds : loadModelsResume(c)
    \/ Render
    \/ RetryCameraAccessUpTo(MaxCameraCalls)
    \/ VideoGrantedUpTo(MaxLeaked)
    \/ VideoDenied
    \/ VideoPlaying
    \/ toggleTracking
    \/ \E k \in ClosureIds : Tick(k)
    \/ \E k \in ClosureIds : PassDone(k)
    \/ \E k \in ClosureIds : PassFailed(k)

\* The roster plays no part in the camera: the one without eligible students
\* keeps the observed list empty
SpecOverlap == InitNoEligible /\ [][NextOverlap]_vars

\* LiveFeed tracking over a roster without an eligible student
SpecEmptyGallery == InitEmptyGallery /\ [][NextOverlap]_vars

\* the sequence without its i-th element
RemoveAt(seq, i) == [j \in 1..(Len(seq) - 1) |-> IF j < i THEN seq[j] ELSE seq[j + 1]]

\* deleteStudent (AppContext.tsx lines 130-143), called by StudentManagement's
\* handleDelete (lines 446-457): App.tsx shows one view at a time (lines
\* 42-59), so the student page is there only while LiveFeed is not
deleteStudent ==
    /\ ~camera.mounted
    /\ \E i \in 1..Len(students) : students' = RemoveAt(students, i)
    /\ systemLogs' = addSystemLogs(systemLogs, "Info", 2)
    /\ UNCHANGED <<svcVars, loadVars, camVars, sessionVars, effectVars, attendanceRecords,
                   recognitionThreshold, probe, alerted>>

\* LiveFeed tracking, then left for the student page where students are deleted
NextRoster ==
    \/ \E c \in CallIds : ServiceStep(c)
    \/ \E c \in CallIds : loadModels(c)
    \/ \E c \in CallIds : loadModelsResume(c)
    \/ Render
    \/ VideoGranted
    \/ VideoDenied
    \/ VideoPlaying
    \/ toggleTracking
    \/ \E k \in ClosureIds : Tick(k)
    \/ \E k \in ClosureIds : PassDone(k)
    \/ \E k \in ClosureIds : PassFailed(k)
    \/ Unmount
    \/ deleteStudent

SpecRoster == Init /\ [][NextRoster]_vars

\* LiveFeed's camera up to the teardown of the component: overlapping
\* startVideo calls, starts and stops of tracking, no detection passes
NextTeardown ==
    \/ \E c \in CallIds : ServiceStep(c)
    \/ \E c \in CallIds : loadModels(c)
    \/ \E c \in CallIds : loadModelsResume(c)
    \/ Render
    \/ RetryCameraAccessUpTo(MaxCameraCalls)
    \/ VideoGrantedUpTo(MaxLeaked)
    \/ VideoGrantedUnmounted(MaxLeaked)
    \/ VideoDenied
    \/ VideoPlaying
    \/ toggleTracking
    \/ Unmount

SpecTeardown == InitNoEligible /\ [][NextTeardown]_vars

\* LiveFeed with its commit handler callable in every rendered state
NextHandlers ==
    \/ \E c \in CallIds : ServiceStep(c)
    \/ \E c \in CallIds : loadModels(c)
    \/ \E c \in CallIds : loadModelsResume(c)
    \/ \E c \in CallIds : handleRetryModelLoading(c)
    \/ \E c \in CallIds : handleRetryResume(c)
    \/ Render
    \/ RetryCameraAccess
    \/ VideoGranted
    \/ VideoDenied
    \/ VideoPlaying
    \/ toggleTracking
    \/ handleCourseChange
    \/ handlePostAttendanceCall
    \/ \E k \in ClosureIds : Tick(k)
    \/ \E k \in ClosureIds : PassDone(k)
    \/ \E k \in ClosureIds : PassFailed(k)

SpecHandlers == Init /\ [][NextHandlers]_vars

\* The model lifecycle with other callers of the service next to LiveFeed
NextLifecycle ==
    \/ \E c \in CallIds : CallGuarded(c)
    \/ \E c \in CallIds : CallDirect(c)
    \/ \E c \in CallIds : ServiceStep(c)
    \/ \E c \in CallIds : OtherReturn(c)
    \/ \E c \in CallIds : loadModels(c)
    \/ \E c \in CallIds : loadModelsResume(c)
    \/ \E c \in CallIds : handleRetryModelLoading(c)
    \/ \E c \in CallIds : handleRetryResume(c)
    \/ Render
    \/ RetryCameraAccess
    \/ VideoGranted
    \/ VideoDenied
    \/ VideoPlaying

SpecLifecycle == Init /\ [][NextLifecycle]_vars

\* initializeFaceApi (lines 104-129): a manifest fetch or a loadFromUri whose
\* request is never answered. Nothing bounds the await: the call stays where it
\* is and modelsLoading stays true
FetchNeverSettles(c) ==
    /\ calls[c].def = "guarded" /\ calls[c].pc \in {"manifests"} \cup Nets
    /\ calls' = [calls EXCEPT ![c].pc = "hung"]
    /\ UNCHANGED <<modelsLoading, modelsLoaded, netParams, forcedLoaded, mockDetection>>
    /\ UNCHANGED <<feedVars, systemLogs>>

\* The guarded initializeFaceApi with LiveFeed and another caller, over a
\* network that may leave a request unanswered
NextLoading ==
    \/ \E c \in CallIds : CallGuarded(c)
    \/ \E c \in CallIds : ServiceStep(c)
    \/ \E c \in CallIds : FetchNeverSettles(c)
    \/ \E c \in CallIds : OtherReturn(c)
    \/ \E c \in CallIds : loadModels(c)
    \/ \E c \in CallIds : loadModelsResume(c)
    \/ \E c \in CallIds : handleRetryModelLoading(c)
    \/ \E c \in CallIds : handleRetryResume(c)
    \/ Render

\* every step the program or the browser takes on its own is taken: a request
\* that is answered, the 100 ms poll of a waiting call, the continuation of an
\* await that has answered, a pending render
FairnessLoading ==
    /\ \A c \in CallIds : WF_vars(ServiceStep(c))
    /\ \A c \in CallIds : WF_vars(loadModelsResume(c))
    /\ \A c \in CallIds : WF_vars(handleRetryResume(c))
    /\ WF_vars(Render)

SpecLoading == Init /\ [][NextLoading]_vars /\ FairnessLoading

\* ------------------------------------------------------------------------
\* The matching functions applied to rosters and detections
\* ------------------------------------------------------------------------

\* students a roster can hold: with and without consent, with and without a
\* descriptor, with a descriptor of another length, two of the same name
StudentPool == {Ann, Bob, Ann2, Eve, Sam, Una}

Injective(seq) == \A i, j \in 1..Len(seq) : seq[i] = seq[j] => i = j

Rosters == {r \in SeqsUpTo(StudentPool, MaxRoster) : Injective(r)}

\* Coordinates of detected faces: at Ann, 0.5, 0.6 and 0.7 from Ann, 0.4 and
\* 0.7 from Ann2
ProbeCoords == {0, 5, 6, 7, 20, 31}

IdOf(entry) == entry.id

\* createFaceMatcher (lines 657-683): every student with a descriptor, each
\* entry holding the constant descriptor, face-api's default threshold
createFaceMatcherMock(studs) ==
    [gallery |-> MapSeq(LAMBDA st : [label |-> st.name, descriptor |-> MOCK_DESCRIPTOR,
                                     descriptorLength |-> DESCRIPTOR_LENGTH, id |-> st.id],
                        SelectSeq(studs, LAMBDA st : st.hasDescriptor)),
     threshold |-> DEFAULT_MATCHER_THRESHOLD]

\* The outcome of one runFaceDetection pass (LiveFeed.tsx lines 329-405) over
\* the detected faces, the closure's detectedStudents being empty
runFaceDetection(studs, faces, configured) ==
    LET gallery == MapSeq(LabeledFaceDescriptors, studentsWithFaces(studs))
        throws == PassThrows(studs, faces)
        results == IF gallery = <<>> \/ throws THEN <<>> ELSE PassResults(studs, faces)
    IN [op |-> "runFaceDetection", faces |-> faces, configured |-> configured,
        gallery |-> MapSeq(IdOf, gallery),
        matcherThreshold |-> MATCH_THRESHOLD, boxThreshold |-> MATCH_THRESHOLD,
        results |-> results,
        green |-> [i \in 1..Len(results) |-> isMatch(results[i])],
        observed |-> [i \in 1..Len(results) |-> ResolvedStudent(studs, results[i])],
        threw |-> throws]

\* detectFaces (faceRecognitionService.ts lines 707-759): the matcher is the
\* caller's, the box colour and the recognized list use recognitionThreshold
detectFaces(faceMatcher, studs, threshold, faces, configured) ==
    LET results == [i \in 1..Len(faces) |->
                       findBestMatch(faceMatcher.gallery, faceMatcher.threshold, faces[i])]
        recognized(result) ==
            IF result.distance < threshold /\ result.label # "unknown"
            THEN LET i == FindByName(studs, result.label, 1)
                 IN IF i = 0 THEN 0 ELSE studs[i].id
            ELSE 0
    IN [op |-> "detectFaces", faces |-> faces, configured |-> configured,
        gallery |-> MapSeq(IdOf, faceMatcher.gallery),
        matcherThreshold |-> faceMatcher.threshold, boxThreshold |-> threshold,
        results |-> results,
        green |-> [i \in 1..Len(results) |-> results[i].distance < threshold],
        observed |-> [i \in 1..Len(results) |-> recognized(results[i])],
        threw |-> FALSE]

\* The outcome of a createFaceMatcher call: the gallery and the threshold of
\* the matcher, an empty gallery for null
MatcherBuilt(name, faceMatcher) ==
    [op |-> name, faces |-> <<>>, configured |-> recognitionThreshold,
     gallery |-> MapSeq(IdOf, faceMatcher.gallery),
     matcherThreshold |-> faceMatcher.threshold, boxThreshold |-> faceMatcher.threshold,
     results |-> <<>>, green |-> <<>>, observed |-> <<>>, threw |-> FALSE]

matchFrame == <<svcVars, loadVars, camVars, sessionVars, effectVars, students,
                attendanceRecords, recognitionThreshold, logVars>>

ApplyCreateFaceMatcher ==
    /\ probe' = MatcherBuilt("createFaceMatcher", createFaceMatcher(students))
    /\ UNCHANGED matchFrame

ApplyCreateFaceMatcherMock ==
    /\ probe' = MatcherBuilt("createFaceMatcherMock", createFaceMatcherMock(students))
    /\ UNCHANGED matchFrame

ApplyRunFaceDetection ==
    /\ \E faces \in SeqsUpTo(ProbeCoords, MaxFaces) :
          probe' = runFaceDetection(students, faces, recognitionThreshold)
    /\ UNCHANGED matchFrame

\* detectFaces with a matcher from either createFaceMatcher, its
\* recognitionThreshold left to the default or taken from the configuration
ApplyDetectFaces ==
    /\ \E faceMatcher \in {createFaceMatcher(students), createFaceMatcherMock(students)},
          threshold \in {DEFAULT_RECOGNITION_THRESHOLD, recognitionThreshold},
          faces \in SeqsUpTo(ProbeCoords, MaxFaces) :
          /\ faceMatcher.gallery # <<>>
          /\ probe' = detectFaces(faceMatcher, students, threshold, faces, recognitionThreshold)
    /\ UNCHANGED matchFrame

InitMatch == \E r \in Rosters : InitFrom(r)

NextMatch ==
    \/ updateSystemConfig
    \/ ApplyCreateFaceMatcher
    \/ ApplyCreateFaceMatcherMock
    \/ ApplyRunFaceDetection
    \/ ApplyDetectFaces

SpecMatch == InitMatch /\ [][NextMatch]_vars

\* ------------------------------------------------------------------------
\* Claims
\* ------------------------------------------------------------------------
PassesInFlight == {k \in ClosureIds : closures[k].st = "detecting"}

\* C1: at most one detection pass is in flight at any moment: never two
\* executions of runFaceDetection that have both passed setProcessingFrame(true)
\* and not yet reached their finally block.
C1_AtMostOnePassInFlight == Cardinality(PassesInFlight) <= 1

PassStarts(k) == closures[k].st # "detecting" /\ closures'[k].st = "detecting"

\* C2: once tracking is stopped (isTracking false and the detection effect's
\* cleanup for the stop has run), no new detection pass starts until tracking is
\* started again.
C2_NoPassStartsWhileStopped ==
    [][\A k \in ClosureIds : (PassStarts(k) /\ Settled) => isTracking]_vars

NoDuplicates(seq) == \A i, j \in 1..Len(seq) : seq[i] = seq[j] => i = j

\* C3: in every state of an open session the observed list detectedStudents
\* contains each student id at most once.
C3_ObservedOnce == isTracking => NoDuplicates(detectedStudents)

AttendanceRecord(id, course) ==
    [studentId |-> id, courseId |-> course, status |-> "Present",
     captureMethod |-> "Automatic"]

\* C4: a successful commit (handlePostAttendance with tracking active, a course
\* selected and a non-empty observed list) adds to the record store exactly one
\* attendance record per observed identity, with that identity's id, the
\* selected course, status Present and captureMethod Automatic, and then closes
\* the session (isTracking false, observed list empty).
C4_CommitAddsOneRecordPerIdentity ==
    [][handlePostAttendance =>
         /\ \E added \in [1..Cardinality(Ids(detectedStudents)) ->
                            {AttendanceRecord(id, selectedCourse) : id \in Ids(detectedStudents)}] :
               /\ attendanceRecords' = addBulkAttendance(attendanceRecords, added)
               /\ Ids(added) = {AttendanceRecord(id, selectedCourse) : id \in Ids(detectedStudents)}
         /\ ~isTracking'
         /\ detectedStudents' = <<>>]_vars

FetchPcs == {"backend", "manifests"} \cup Nets \cup DirectStages \cup AltStages

FetchSequences == {c \in CallIds : calls[c].pc \in FetchPcs}

\* C5: initializeFaceApi calls that overlap in time result in exactly one
\* artifact fetch sequence: the fetches and loads are started by only one of
\* the calls, and the others wait for it.
C5_OneFetchSequence == Cardinality(FetchSequences) <= 1

\* C6: a load that ended in the mock fallback is never reported as Ready:
\* after createMockModels has substituted synthetic detections, areModelsLoaded
\* does not return true and no initializeFaceApi call has returned true.
C6_MockNeverReady ==
    mockDetection =>
        /\ ~areModelsLoaded
        /\ ~areModelsLoadedDirect
        /\ \A c \in CallIds : calls[c].result # "true"

StartsTracking == ~isTracking /\ isTracking'

EarlierPassEnds(k) ==
    closures[k].st = "detecting" /\ closures[k].earlier /\ closures'[k].st # "detecting"

\* C11: starting tracking opens a session with an empty observed list, and no
\* identity enters the list of that session from a pass that began during an
\* earlier session: such a pass, when it ends, leaves detectedStudents as it is.
C11_StartOpensFreshSession ==
    [][/\ StartsTracking => detectedStudents' = <<>>
       /\ \A k \in ClosureIds : EarlierPassEnds(k) => detectedStudents' = detectedStudents]_vars

\* C12: stopping tracking without committing (toggleTracking while isTracking is
\* true) closes the session and discards its observations: afterwards isTracking
\* is false, detectedStudents is empty and no attendance record has been added.
C12_StopDiscardsObservations ==
    [][(isTracking /\ toggleTracking) =>
          /\ ~isTracking'
          /\ detectedStudents' = <<>>
          /\ attendanceRecords' = attendanceRecords]_vars

\* C13: committing while the observed list is empty reports a failure to the
\* operator, adds no attendance record and adds no entry to the system log
C13_EmptyCommitFails ==
    [][(detectedStudents = <<>> /\ handlePostAttendanceCall) =>
          /\ alerted' # ""
          /\ attendanceRecords' = attendanceRecords
          /\ systemLogs' = systemLogs]_vars

\* C14: committing with no course selected raises the alert and leaves the
\* records, the tracking flag, the observed list and the system log as they were
C14_NoCourseCommitFails ==
    [][(selectedCourse = "" /\ handlePostAttendanceCall) =>
          /\ alerted' # ""
          /\ attendanceRecords' = attendanceRecords
          /\ isTracking' = isTracking
          /\ detectedStudents' = detectedStudents
          /\ systemLogs' = systemLogs]_vars

\* a commit was refused for want of a course while a session had observations
C14_Witness ==
    /\ alerted # ""
    /\ selectedCourse = ""
    /\ isTracking
    /\ detectedStudents # <<>>

\* a call of initializeFaceApi returns true in this step
ReturnsTrue(c) == calls[c].result # "true" /\ calls'[c].result = "true"

\* a call of initializeFaceApi is made in this step
Enters(c) == calls[c].pc = "idle" /\ calls'[c].pc # "idle"

\* C15: a call that returns true leaves areModelsLoaded true, areModelsLoaded
\* once true stays true, and a call made while it is true returns true at once,
\* leaving modelsLoading alone and starting no fetch or load
C15_ReadyIsTerminal ==
    [][/\ \A c \in CallIds : ReturnsTrue(c) => areModelsLoaded'
       /\ areModelsLoaded => areModelsLoaded'
       /\ \A c \in CallIds :
             (areModelsLoaded /\ Enters(c)) =>
                /\ calls'[c].pc = "returned"
                /\ calls'[c].result = "true"
                /\ modelsLoading' = modelsLoading
                /\ netParams' = netParams]_vars

\* a call of the guarded definition returned true although the nets' weights
\* were not all loaded by this definition: it returned on its ready check
C15_Witness ==
    \E c \in CallIds :
       /\ calls[c].def = "guarded"
       /\ calls[c].pc = "returned"
       /\ calls[c].result = "true"
       /\ netParams # Nets

\* a call of initializeFaceApi returns false in this step
ReturnsFalse(c) == calls[c].result # "false" /\ calls'[c].result = "false"

\* C16: a call that fails leaves the service Failed (false returned,
\* areModelsLoaded false, modelsLoading false) and LiveFeed takes it to ERROR;
\* the Retry button then starts a fresh load, which returns true when its last
\* load succeeds, with areModelsLoaded true, and LiveFeed takes that to LOADED
C16_FailedLoadRetriedToSuccess ==
    [][\A c \in CallIds :
          /\ ReturnsFalse(c) => (~areModelsLoaded' /\ ~modelsLoading')
          /\ (loadModelsResume(c) /\ calls[c].result = "false") => modelStatus' = "error"
          /\ (modelStatus = "error" /\ handleRetryModelLoading(c)) =>
                (calls'[c].pc = "backend" /\ modelsLoading')
          /\ (calls[c].caller = "retry" /\ calls[c].pc = "faceRecognitionNet"
                  /\ netParams' = Nets /\ calls'[c] # calls[c]) =>
                (ReturnsTrue(c) /\ areModelsLoaded' /\ ~modelsLoading')
          /\ (handleRetryResume(c) /\ calls[c].result = "true") => modelStatus' = "loaded"]_vars

\* the retry that followed a failed load has returned true
C16_Witness ==
    \E c \in CallIds :
       /\ calls[c].caller = "retry"
       /\ calls[c].pc = "returned"
       /\ calls[c].result = "true"
       /\ areModelsLoaded
       /\ modelStatus = "error"

\* a call of initializeFaceApi returns to its caller in this step
Returns(c) == calls[c].pc # "returned" /\ calls'[c].pc = "returned"

\* the returning call answers false, modelsLoading is reset and the log
\* handler has received the FACE_API_001 error event
EndsAsFailed(c) ==
    /\ calls'[c].result = "false"
    /\ ~modelsLoading'
    /\ systemLogs' = addSystemLog(systemLogs, "FACE_API_001")

\* C17: a call during which the backend setup, a manifest fetch or parse, or a
\* model load failed returns false, with modelsLoading reset and the error
\* event delivered to the log handler
C17_EveryFailureEndsAsFailed ==
    [][\A c \in CallIds :
          (Returns(c) /\ calls'[c].failure # "none") => EndsAsFailed(c)]_vars

\* C17, amended: a call during which a manifest fetch or parse, or a model
\* load failed returns false, with modelsLoading reset and the error event
\* delivered to the log handler
C17_FetchFailureEndsAsFailed ==
    [][\A c \in CallIds :
          (Returns(c) /\ calls'[c].failure \in {"manifest", "load"}) => EndsAsFailed(c)]_vars

\* a call has returned after a manifest fetch or a model load failed
C17_Witness ==
    \E c \in CallIds :
       /\ calls[c].pc = "returned"
       /\ calls[c].failure \in {"manifest", "load"}
       /\ calls[c].result = "false"
       /\ systemLogs.last = "FACE_API_001"

\* C18: whenever the model status is ERROR and no load is in progress, the
\* error alert is shown and it carries the Retry button
C18_FailedStateOffersRetry ==
    (modelStatus = "error" /\ ~loading) => (modelLoadError # "none" /\ retryModelLoading)

\* C19: a detection pass that throws while tracking is active is logged as
\* FACE_DETECT_001 and leaves tracking active
C19_FailingPassIsRecoverable ==
    [][\A k \in ClosureIds :
          (isTracking /\ PassFailed(k)) =>
             /\ systemLogs' = addSystemLog(systemLogs, "FACE_DETECT_001")
             /\ isTracking']_vars

\* no animation frame is requested and no pass is in flight
NoPassPending == \A k \in ClosureIds : closures[k].st \notin {"scheduled", "detecting"}

\* C20: once tracking is no longer started again and no pass completes any
\* more (every pass throws), the loop comes to rest: from some moment on no
\* pass is in flight and none is scheduled
C20_FailingLoopComesToRest ==
    <>[][~StartsTracking /\ \A k \in ClosureIds : ~PassDone(k)]_vars => <>[]NoPassPending

\* C21: a pass that starts in a rendered state starts only with the models
\* loaded, the video ready and a live stream on the video element; a denied camera request leaves cameraActive
\* false, logs CAM_ACCESS_001 and offers the retry; tracking is not started
\* while the camera is not active
C21_NoPassWithoutModelAndCamera ==
    [][/\ \A k \in ClosureIds :
             (PassStarts(k) /\ Settled) =>
                (modelStatus = "loaded" /\ videoReady /\ camera.src = "live")
       /\ VideoDenied =>
             /\ ~cameraActive'
             /\ cameraRetryAvailable'
             /\ systemLogs' = addSystemLog(systemLogs, "CAM_ACCESS_001")
       /\ ~cameraActive => ~(~isTracking /\ isTracking')]_vars

\* every stream startVideo acquired has had its tracks stopped
NoLiveStream == camera.src # "live" /\ camera.orphans = 0

\* the component is taken down and no startVideo call is pending any more
TornDown == ~camera.mounted /\ camera.pending = 0

\* C22: when tracking stops, and once the component is taken down and its
\* pending camera requests have settled, every stream that startVideo
\* acquired has had its tracks stopped
C22_CameraNeverLeaked ==
    [][/\ (isTracking /\ ~isTracking') => NoLiveStream'
       /\ TornDown' => NoLiveStream']_vars

C24_WaiterReturnsAwaitedOutcome ==
    [][\A w \in CallIds :
          (calls[w].pc = "waiting" /\ calls'[w].pc = "returned") =>
             calls'[w].result = calls[w].awaited]_vars

\* C25: every pass that starts uses the students that are enrolled when it
\* starts, and a pass in flight keeps the students it started with
C25_PassUsesCurrentStudents ==
    [][\A k \in ClosureIds :
          /\ PassStarts(k) => closures[k].students = students
          /\ (closures[k].st = "detecting" /\ closures'[k].st = "detecting") =>
                closures'[k].students = closures[k].students]_vars

\* tracking is active with the models loaded, the video ready and playing
LoopActive ==
    /\ isTracking /\ modelStatus = "loaded" /\ videoReady
    /\ camera.src = "live" /\ camera.playing

PassEnds(k) == closures[k].st = "detecting" /\ closures'[k].st # "detecting"

\* C26: every pass that ends leaves processingFrame false, and when tracking
\* stays active with the models loaded and the video ready, processingFrame is
\* false again and again and passes start again and again
C26_LoopKeepsMakingProgress ==
    /\ [][\A k \in ClosureIds : PassEnds(k) => ~processingFrame']_vars
    /\ <>[]LoopActive =>
          /\ []<>(~processingFrame)
          /\ []<><<\E k \in ClosureIds : PassStarts(k)>>_vars

\* a pass of the session has completed and another one is in flight
C26_Witness ==
    /\ LoopActive
    /\ detectedStudents # <<>>
    /\ \E k \in ClosureIds : closures[k].st = "detecting" /\ ~closures[k].earlier

\* the call c of initializeFaceApi has been entered and has not returned
InCall(c) == calls[c].pc \notin {"idle", "returned"}

\* C27: every call of initializeFaceApi that was entered returns, also when a
\* request of the load is never answered, and also when it is a waiting call
C27_EveryCallReturns ==
    \A c \in CallIds : InCall(c) ~> (calls[c].pc = "returned")

\* the pass of closure k ends, which did not start in a rendered state with
\* tracking inactive
ActivePassEnds(k) == PassEnds(k) /\ ~closures[k].inactive

\* C28: while tracking is inactive detectedStudents grows only when a pass ends
\* that started while tracking was active
C28_NoGrowthWhileInactive ==
    [][(~isTracking /\ Len(detectedStudents') > Len(detectedStudents)) =>
          \E k \in ClosureIds : ActivePassEnds(k)]_vars

\* C29: while tracking is inactive no step posts attendance (no "Posted" entry
\* is logged, no record is added), and a start of tracking empties the
\* observed list
C29_CommitOnlyWhileTracking ==
    [][/\ ~isTracking => /\ systemLogs' # addSystemLog(systemLogs, "Posted")
                          /\ attendanceRecords' = attendanceRecords
       /\ StartsTracking => detectedStudents' = <<>>]_vars

\* tracking is inactive in a rendered state with observations left and a course
\* selected
C29_Witness ==
    /\ Settled
    /\ ~isTracking
    /\ detectedStudents # <<>>
    /\ selectedCourse # ""

\* a startVideo call sets the stream it acquired on the video element
InstallsStream == camera'.pending < camera.pending /\ camera'.src = "live"

\* C30: when startVideo installs a stream, no other stream that a startVideo
\* call acquired is left live
C30_AtMostOneLiveStream ==
    [][InstallsStream => camera'.orphans = 0]_vars

\* C7: within one detection pass a single threshold decides everything: a face
\* is boxed green if and only if its label is not 'unknown', if and only if it
\* is observed, if and only if its distance is below the matcher's threshold,
\* so that the matcher, the box colour test and the observation test never
\* decide a face by different values.
C7_SingleThresholdPerPass ==
    (probe.op \in {"runFaceDetection", "detectFaces"} /\ ~probe.threw) =>
        \A i \in 1..Len(probe.results) :
            /\ probe.green[i] <=> probe.results[i].distance < probe.matcherThreshold
            /\ probe.green[i] <=> probe.results[i].label # "unknown"
            /\ probe.green[i] <=> probe.observed[i] # 0

\* C8: the threshold the live detection loop applies is the configured
\* recognitionThreshold: a face of a pass is a match if and only if its distance
\* is below the value configured when the pass ran.
C8_ConfiguredThresholdDecides ==
    (probe.op = "runFaceDetection" /\ ~probe.threw) =>
        \A i \in 1..Len(probe.results) :
            /\ probe.green[i] <=> probe.results[i].distance < probe.configured
            /\ probe.observed[i] # 0 <=> probe.results[i].distance < probe.configured

Eligible(st) ==
    st.consentGiven /\ st.hasDescriptor /\ st.descriptorLength = DESCRIPTOR_LENGTH

EligibleIds(studs) == {studs[i].id : i \in {j \in 1..Len(studs) : Eligible(studs[j])}}

\* C9: every gallery used for matching, the one createFaceMatcher builds and
\* the one a LiveFeed pass builds, holds exactly the students with consent and a
\* face descriptor of 128 values.
C9_GalleryIsEligible ==
    probe.op \in {"createFaceMatcher", "createFaceMatcherMock", "runFaceDetection"} =>
        Ids(probe.gallery) = EligibleIds(students)

\* ids of the gallery entries of a pass nearest to a detected face
NearestIds(studs, at) ==
    LET gallery == MapSeq(LabeledFaceDescriptors, studentsWithFaces(studs))
        dist(i) == euclideanDistance(at, gallery[i].descriptor)
    IN {gallery[i].id : i \in {j \in 1..Len(gallery) :
                                 \A k \in 1..Len(gallery) : dist(j) <= dist(k)}}

\* C10: a match resolves by identifier: the student a pass observes for a face
\* is the enrolled student whose reference descriptor is nearest to the face,
\* also when another student has the same name.
C10_ResolvesById ==
    (probe.op = "runFaceDetection" /\ ~probe.threw) =>
        \A i \in 1..Len(probe.results) :
            probe.observed[i] # 0 => probe.observed[i] \in NearestIds(students, probe.faces[i])

====
